---- MODULE Spec2Model ----
(***************************************************************************)
(* Checkpoint replication of the planner collections                       *)
(* (src/src/planner-replication.ts, second version of the module, lines    *)
(* 481-1019) over the Prisma schema (src/src/issue.ts, lines 246-337).     *)
(*                                                                         *)
(* One collection is modelled; the four collections run the same two       *)
(* handlers and differ only in the name of the identity field.  A stored   *)
(* row has the identity (id), the owner (userId), one payload field        *)
(* (title), the tombstone (deleted) and the change-time (serverTimestamp). *)
(* Identities are 1..MaxId in their sort order and 0 is the empty string,  *)
(* which sorts before every identity.  A Date is a number of milliseconds, *)
(* an ISO string is the one-element sequence holding it and the empty      *)
(* string is the empty sequence.                                           *)
(***************************************************************************)
EXTENDS Integers, Sequences, FiniteSets, TLC

\* ---------------------------------------------------------------- bounds
MaxId == 2
MaxClock == 2
MaxRows == 2
MaxBatch == 2
MaxPushes == 3
MaxClientTime == 0

\* ------------------------------------------------------------- constants
DefaultBatchSize == 10
EmptyId == 0

Owners == {"u1", "u2"}
NoUser == "undefined"
Titles == {"X", "Y"}
Ids == 1..MaxId
Procs == {1, 2}
Null == [null |-> TRUE]

\* Values of the server clock, and the change-times a client can send.
ServerTimes == 1..MaxClock
ClientTimes == 0..MaxClientTime
Times == ServerTimes \cup ClientTimes

\* --------------------------------------------------------- date <-> text
toISOString(d) == <<d>>
NewDate(s) == s[1]
EmptyString == <<>>

\* ------------------------------------------------------------ documents
\* RxDocument<M>: the row without userId, serverTimestamp and deleted, with _deleted.
WireDocs == [id : Ids, title : Titles, _deleted : BOOLEAN]

\* newDocumentState: id and _deleted are required, other fields pass through.
NewStates ==
    WireDocs \cup
    [id : Ids, title : Titles, _deleted : BOOLEAN,
     serverTimestamp : {toISOString(t) : t \in ClientTimes}]

\* RxReplicationWriteToMasterRow: assumedMasterState is optional.
Intents ==
    [newDocumentState : NewStates] \cup
    {r \in [newDocumentState : NewStates, assumedMasterState : WireDocs] :
        r.assumedMasterState.id = r.newDocumentState.id}

\* New states that carry an owner and a storage tombstone of their own: the
\* validators are .passthrough(), so both reach the handler.
ForgedStates ==
    WireDocs \cup
    [id : Ids, title : Titles, _deleted : BOOLEAN, userId : Owners, deleted : BOOLEAN]

ForgedIntents ==
    [newDocumentState : ForgedStates] \cup
    {r \in [newDocumentState : ForgedStates, assumedMasterState : WireDocs] :
        r.assumedMasterState.id = r.newDocumentState.id}

Rows == [id : Ids, userId : Owners, title : Titles, deleted : BOOLEAN,
         serverTimestamp : Times]

\* Query parameters of a pull: id and serverTimestamp are strings, maybe empty;
\* batchSize is optional, z.coerce.number() lets any number through.
Queries ==
    [id : Ids \cup {EmptyId},
     serverTimestamp : {EmptyString} \cup {toISOString(t) : t \in Times}] \cup
    [id : Ids \cup {EmptyId},
     serverTimestamp : {EmptyString} \cup {toISOString(t) : t \in Times},
     batchSize : 0..MaxBatch]

\* The batchSize parameter a client sends: none, or a number.
BatchParams == {<<>>} \cup {<<n>> : n \in 0..MaxBatch}

PositiveBatchParams == {b \in BatchParams : b = <<>> \/ b[1] > 0}

\* Faulty variant: the projection leaves the owner in.
WireKeepsOwner(item) ==
    [k \in (DOMAIN item \ {"serverTimestamp", "deleted"}) \cup {"_deleted"} |->
        IF k = "_deleted" THEN item.deleted ELSE item[k]]

\* const { userId, serverTimestamp, deleted, ...itemData } = item;
\* { ...itemData, _deleted: deleted || false }
Wire(item) ==
    [k \in (DOMAIN item \ {"userId", "serverTimestamp", "deleted"}) \cup {"_deleted"} |->
        IF k = "_deleted" THEN item.deleted ELSE item[k]]

\* utils/deepCompare: whole-document structural equality.
deepCompare(a, b) == a = b

VARIABLES
    store,             \* the table: a set of rows
    now,               \* the server clock, new Date()
    pc,                \* per push request: "idle", "scan", "write", "done", "failed"
    userId,            \* per push request: the authenticated owner
    left,              \* per push request: intents of rows not yet processed
    row,               \* per push request: the intent whose write is awaited
    itemInDb,          \* per push request: what findUnique returned for it
    conflicts,         \* per push request: the conflicts collected so far
    applied,           \* per push request: number of writes issued
    result,            \* per push request: the list it returned
    pushes,            \* number of push requests begun
    raced,             \* observer: two requests passed the same check at once
    before,            \* observer: the table when the observed push request began
    batch,             \* the replicating client: the batchSize parameter it sends
    puller,            \* the replicating client: its owner
    checkpoint,        \* the replicating client: the checkpoint of its last pull
    documents,         \* the replicating client: the documents of its last pull
    delivered          \* the replicating client: documents received since its first pull

vars == <<store, now, pc, userId, left, row, itemInDb, conflicts, applied, result,
          pushes, raced, before, batch, puller, checkpoint, documents, delivered>>

pushVars == <<pc, userId, left, row, itemInDb, conflicts, applied, result, pushes,
              raced, before>>

pullVars == <<batch, puller, checkpoint, documents, delivered>>

\* ------------------------------------------------------------- storage
\* Faulty variant: the order by identity alone.
BeforeById(r1, r2) == r1.id < r2.id

\* (serverTimestamp asc, identity asc)
Before(r1, r2) ==
    \/ r1.serverTimestamp < r2.serverTimestamp
    \/ r1.serverTimestamp = r2.serverTimestamp /\ r1.id < r2.id

\* orderBy: the rows of S in ascending order.
RECURSIVE Sorted(_)
Sorted(S) ==
    IF S = {} THEN <<>>
    ELSE LET m == CHOOSE r \in S : \A o \in S : o = r \/ Before(r, o)
         IN <<m>> \o Sorted(S \ {m})

\* Faulty variant: no limit.
TakeAll(s, n) == s

\* take: the first n elements.
Take(s, n) == SubSeq(s, 1, IF n < Len(s) THEN n ELSE Len(s))

\* Faulty variant: the where clause without its tie-breaking branch.
EligibleNoTie(st, u, lastPulledTimestamp, id) ==
    {r \in st : r.userId = u /\ r.serverTimestamp > lastPulledTimestamp}

\* Faulty variant: the where clause leaves tombstoned rows out.
EligibleLive(st, u, lastPulledTimestamp, id) ==
    {r \in st :
        /\ r.userId = u
        /\ ~r.deleted
        /\ \/ r.serverTimestamp > lastPulledTimestamp
           \/ r.serverTimestamp = lastPulledTimestamp /\ r.id > id}

\* Faulty variant: the where clause without the cursor.
EligibleAll(st, u, lastPulledTimestamp, id) ==
    {r \in st : r.userId = u}

\* Faulty variant: the where clause without the owner.
EligibleAnyOwner(st, u, lastPulledTimestamp, id) ==
    {r \in st :
        \/ r.serverTimestamp > lastPulledTimestamp
        \/ r.serverTimestamp = lastPulledTimestamp /\ r.id > id}

\* where: { userId, OR: [{serverTimestamp: {gt}}, {AND: [{serverTimestamp}, {[idField]: {gt: id}}]}] }
Eligible(st, u, lastPulledTimestamp, id) ==
    {r \in st :
        /\ r.userId = u
        /\ \/ r.serverTimestamp > lastPulledTimestamp
           \/ r.serverTimestamp = lastPulledTimestamp /\ r.id > id}

\* Faulty variant: a supplied identity alone makes a cursor.
findManyIdCursor(st, u, q, batchSize) ==
    IF q.serverTimestamp # EmptyString
    THEN Take(Sorted(Eligible(st, u, NewDate(q.serverTimestamp), q.id)), batchSize)
    ELSE Take(Sorted({r \in st : r.userId = u /\ r.id > q.id}), batchSize)

\* findMany of handlePullRequest
findMany(st, u, q, batchSize) ==
    IF q.serverTimestamp # EmptyString
    THEN Take(Sorted(Eligible(st, u, NewDate(q.serverTimestamp), q.id)), batchSize)
    ELSE Take(Sorted({r \in st : r.userId = u}), batchSize)

\* findUnique({ where: { userId, [idField]: id } })
findUnique(st, u, id) ==
    IF \E r \in st : r.userId = u /\ r.id = id
    THEN CHOOSE r \in st : r.userId = u /\ r.id = id
    ELSE Null

\* ---------------------------------------------------------------- pull
\* Faulty variant: an empty batch returns no checkpoint.
EmptyCheckpointNull(q) == Null

\* Faulty variant: an empty batch returns the change-time without the identity.
EmptyCheckpointNoId(q) ==
    IF q.serverTimestamp # EmptyString
    THEN [id |-> EmptyId, serverTimestamp |-> toISOString(NewDate(q.serverTimestamp))]
    ELSE Null

\* The checkpoint of an empty batch: the one the client sent, or null.
EmptyCheckpoint(q) ==
    IF q.serverTimestamp # EmptyString
    THEN [id |-> q.id, serverTimestamp |-> toISOString(NewDate(q.serverTimestamp))]
    ELSE Null

\* Faulty variant: the checkpoint of the first row of the batch.
NewCheckpointFirst(items) ==
    [id |-> items[1].id, serverTimestamp |-> toISOString(items[1].serverTimestamp)]

\* newCheckpoint: identity and change-time of lastDoc = lastOfArray(items).
NewCheckpoint(items) ==
    [id |-> items[Len(items)].id,
     serverTimestamp |-> toISOString(items[Len(items)].serverTimestamp)]

handlePullRequest(st, u, q) ==
    IF u = NoUser THEN [error |-> "User ID is required"]
    ELSE
    LET batchSize == IF "batchSize" \in DOMAIN q THEN q.batchSize ELSE DefaultBatchSize
        items == findMany(st, u, q, batchSize)
    IN IF Len(items) = 0
       THEN [checkpoint |-> EmptyCheckpoint(q), documents |-> <<>>]
       ELSE [checkpoint |-> NewCheckpoint(items),
             documents |-> [i \in 1..Len(items) |-> Wire(items[i])]]

\* The query parameters a client sends: those of a first sync, or its checkpoint.
FirstSync == [id |-> EmptyId, serverTimestamp |-> EmptyString]

WithBatch(q, b) ==
    IF b = <<>> THEN q
    ELSE [k \in DOMAIN q \cup {"batchSize"} |-> IF k = "batchSize" THEN b[1] ELSE q[k]]

\* Faulty variant: a pull drops the tombstoned rows it has delivered.
PullPurges(u, q) ==
    LET response == handlePullRequest(store, u, q)
    IN /\ "error" \notin DOMAIN response
       /\ puller' = u
       /\ checkpoint' = response.checkpoint
       /\ documents' = response.documents
       /\ delivered' = IF q.serverTimestamp = EmptyString
                       THEN response.documents
                       ELSE delivered \o response.documents
       /\ store' = {r \in store :
                      ~(r.userId = u /\ r.deleted /\
                        \E i \in 1..Len(response.documents) :
                            response.documents[i].id = r.id)}
       /\ UNCHANGED <<now, pushVars>>

\* GET /<collection>/pull
Pull(u, q) ==
    LET response == handlePullRequest(store, u, q)
    IN /\ "error" \notin DOMAIN response
       /\ puller' = u
       /\ checkpoint' = response.checkpoint
       /\ documents' = response.documents
       /\ delivered' = IF q.serverTimestamp = EmptyString
                       THEN response.documents
                       ELSE delivered \o response.documents
       /\ UNCHANGED <<store, now, pushVars>>

\* The client's first pull, and its next pull with the checkpoint it holds.
PullFirst(u, b) ==
    /\ batch' = b
    /\ Pull(u, WithBatch(FirstSync, b))

PullNext ==
    /\ puller # NoUser
    /\ UNCHANGED batch
    /\ Pull(puller, WithBatch(IF checkpoint = Null THEN FirstSync ELSE checkpoint, batch))

\* ---------------------------------------------------------------- push
\* Faulty variant: the request runs without the check of its owner.
PushBeginUnchecked(p, u, n) ==
    /\ pc[p] \in {"idle", "done", "failed"}
    /\ pushes < MaxPushes
    /\ pushes' = pushes + 1
    /\ pc' = [pc EXCEPT ![p] = "scan"]
    /\ userId' = [userId EXCEPT ![p] = u]
    /\ left' = [left EXCEPT ![p] = n]
    /\ row' = [row EXCEPT ![p] = Null]
    /\ itemInDb' = [itemInDb EXCEPT ![p] = Null]
    /\ conflicts' = [conflicts EXCEPT ![p] = <<>>]
    /\ applied' = [applied EXCEPT ![p] = 0]
    /\ result' = [result EXCEPT ![p] = <<>>]
    /\ raced' = FALSE
    /\ UNCHANGED <<store, now, pullVars>>

\* if (!userId) throw new Error("User ID is required"), before the loop.
PushBegin(p, u, n) ==
    /\ pc[p] \in {"idle", "done", "failed"}
    /\ pushes < MaxPushes
    /\ pushes' = pushes + 1
    /\ pc' = [pc EXCEPT ![p] = IF u = NoUser THEN "failed" ELSE "scan"]
    /\ userId' = [userId EXCEPT ![p] = u]
    /\ left' = [left EXCEPT ![p] = IF u = NoUser THEN 0 ELSE n]
    /\ row' = [row EXCEPT ![p] = Null]
    /\ itemInDb' = [itemInDb EXCEPT ![p] = Null]
    /\ conflicts' = [conflicts EXCEPT ![p] = <<>>]
    /\ applied' = [applied EXCEPT ![p] = 0]
    /\ result' = [result EXCEPT ![p] = <<>>]
    /\ raced' = FALSE
    /\ UNCHANGED <<store, now, pullVars>>

\* for (const row of rows): the next iteration, or the end of the loop.
Continue(p) ==
    /\ left' = [left EXCEPT ![p] = left[p] - 1]
    /\ pc' = [pc EXCEPT ![p] = "scan"]
    /\ row' = [row EXCEPT ![p] = Null]
    /\ itemInDb' = [itemInDb EXCEPT ![p] = Null]

\* An awaited write resolves.
Written(p) ==
    /\ applied' = [applied EXCEPT ![p] = applied[p] + 1]
    /\ UNCHANGED <<userId, conflicts, result>>
    /\ Continue(p)

\* An awaited call rejects: the request fails.  The calls go through the model
\* delegate of the global client, not through tx, so earlier writes stay.
Throw(p) ==
    /\ pc' = [pc EXCEPT ![p] = "failed"]
    /\ row' = [row EXCEPT ![p] = Null]
    /\ itemInDb' = [itemInDb EXCEPT ![p] = Null]
    /\ UNCHANGED <<store, userId, left, conflicts, applied, result>>

\* The row Prisma writes: the fields of data over those of base, and
\* serverTimestamp (@updatedAt) set to the clock unless data carries one.
PrismaRow(base, data, clock) ==
    [k \in {"id", "userId", "title", "deleted", "serverTimestamp"} |->
        IF k = "serverTimestamp"
        THEN IF k \in DOMAIN data THEN NewDate(data[k]) ELSE clock
        ELSE IF k \in DOMAIN data THEN data[k] ELSE base[k]]

\* Faulty variant: the owner and the tombstone of the new state are kept.
UpsertDataTrusting(nds, u) ==
    [k \in (DOMAIN nds \ {"_deleted"}) \cup {"userId", "deleted"} |->
        IF k \in DOMAIN nds THEN nds[k]
        ELSE IF k = "userId" THEN u
        ELSE FALSE]

\* const { _deleted, ...itemData } = newDocumentState;
\* data = { ...itemData, userId, deleted: false }
UpsertData(nds, u) ==
    [k \in (DOMAIN nds \ {"_deleted"}) \cup {"userId", "deleted"} |->
        IF k = "userId" THEN u
        ELSE IF k = "deleted" THEN FALSE
        ELSE nds[k]]

\* Faulty variant: an intent without an assumed state conflicts with any
\* stored row.
IsConflictAnyRow(found, r) ==
    /\ found # Null
    /\ \/ "assumedMasterState" \notin DOMAIN r
       \/ ~deepCompare(Wire(found), r.assumedMasterState)

\* Faulty variant: every intent that supplies an assumed state conflicts.
IsConflictAnyAssumed(found, r) ==
    /\ found # Null
    /\ "assumedMasterState" \in DOMAIN r

\* Faulty variant: the comparison leaves the tombstone out.
IsConflictNoTombstone(found, r) ==
    /\ found # Null
    /\ "assumedMasterState" \in DOMAIN r
    /\ ~deepCompare([Wire(found) EXCEPT !._deleted = FALSE],
                    [r.assumedMasterState EXCEPT !._deleted = FALSE])

\* if (itemInDb) { ... if (assumedMasterState && !deepCompare(...)) }
IsConflict(found, r) ==
    /\ found # Null
    /\ "assumedMasterState" \in DOMAIN r
    /\ ~deepCompare(Wire(found), r.assumedMasterState)

\* Observer: request p passes the conflict check for intent r against the
\* stored row found, while another request of the same owner, which passed it
\* against the same row with the same assumed state and another new state,
\* has its write still to come.
Overlaps(p, r, found) ==
    /\ found # Null
    /\ "assumedMasterState" \in DOMAIN r
    /\ \E q \in Procs \ {p} :
          /\ pc[q] = "write"
          /\ userId[q] = userId[p]
          /\ itemInDb[q] = found
          /\ "assumedMasterState" \in DOMAIN row[q]
          /\ row[q].assumedMasterState = r.assumedMasterState
          /\ row[q].newDocumentState.id = r.newDocumentState.id
          /\ row[q].newDocumentState # r.newDocumentState

\* Faulty variant: the check is made against the table as it was when the
\* request began.
PushScanSnapshot(p, r) ==
    /\ pc[p] = "scan"
    /\ left[p] > 0
    /\ LET found == findUnique(before, userId[p], r.newDocumentState.id)
       IN IF IsConflict(found, r)
          THEN /\ conflicts' = [conflicts EXCEPT ![p] = Append(conflicts[p], Wire(found))]
               /\ Continue(p)
               /\ UNCHANGED raced
          ELSE /\ UNCHANGED conflicts
               /\ IF r.newDocumentState._deleted /\ found = Null
                  THEN Continue(p) /\ UNCHANGED raced
                  ELSE /\ pc' = [pc EXCEPT ![p] = "write"]
                       /\ row' = [row EXCEPT ![p] = r]
                       /\ itemInDb' = [itemInDb EXCEPT ![p] = found]
                       /\ raced' = (raced \/ Overlaps(p, r, found))
                       /\ UNCHANGED left
    /\ UNCHANGED <<store, now, userId, applied, result, pushes, before, pullVars>>

\* Faulty variant: the delete of a row that is not there is sent to storage.
PushScanDeletesAbsent(p, r) ==
    /\ pc[p] = "scan"
    /\ left[p] > 0
    /\ LET found == findUnique(store, userId[p], r.newDocumentState.id)
       IN IF IsConflict(found, r)
          THEN /\ conflicts' = [conflicts EXCEPT ![p] = Append(conflicts[p], Wire(found))]
               /\ Continue(p)
               /\ UNCHANGED raced
          ELSE /\ UNCHANGED conflicts
               /\ pc' = [pc EXCEPT ![p] = "write"]
               /\ row' = [row EXCEPT ![p] = r]
               /\ itemInDb' = [itemInDb EXCEPT ![p] = found]
               /\ raced' = (raced \/ Overlaps(p, r, found))
               /\ UNCHANGED left
    /\ UNCHANGED <<store, now, userId, applied, result, pushes, before, pullVars>>

\* One iteration up to its write: findUnique, the conflict check, and the
\* delete of a row that is not there, which writes nothing.
PushScan(p, r) ==
    /\ pc[p] = "scan"
    /\ left[p] > 0
    /\ LET found == findUnique(store, userId[p], r.newDocumentState.id)
       IN IF IsConflict(found, r)
          THEN /\ conflicts' = [conflicts EXCEPT ![p] = Append(conflicts[p], Wire(found))]
               /\ Continue(p)
               /\ UNCHANGED raced
          ELSE /\ UNCHANGED conflicts
               /\ IF r.newDocumentState._deleted /\ found = Null
                  THEN Continue(p) /\ UNCHANGED raced
                  ELSE /\ pc' = [pc EXCEPT ![p] = "write"]
                       /\ row' = [row EXCEPT ![p] = r]
                       /\ itemInDb' = [itemInDb EXCEPT ![p] = found]
                       /\ raced' = (raced \/ Overlaps(p, r, found))
                       /\ UNCHANGED left
    /\ UNCHANGED <<store, now, userId, applied, result, pushes, before, pullVars>>

\* Faulty variant: the delete removes the row.
HardDelete(p) ==
    LET target == findUnique(store, userId[p], row[p].newDocumentState.id)
    IN IF target = Null
       THEN Throw(p)
       ELSE /\ store' = store \ {target}
            /\ Written(p)

\* Faulty variant: the delete also writes the payload of the new state.
SoftDeleteOverwrites(p) ==
    LET target == findUnique(store, userId[p], row[p].newDocumentState.id)
    IN IF target = Null
       THEN Throw(p)
       ELSE /\ store' = (store \ {target}) \cup
                        {[target EXCEPT !.deleted = TRUE, !.serverTimestamp = now,
                                        !.title = row[p].newDocumentState.title]}
            /\ Written(p)

\* collection.update({ where, data: { deleted: true, serverTimestamp: new Date() } })
SoftDelete(p) ==
    LET target == findUnique(store, userId[p], row[p].newDocumentState.id)
    IN IF target = Null
       THEN Throw(p)
       ELSE /\ store' = (store \ {target}) \cup
                        {[target EXCEPT !.deleted = TRUE, !.serverTimestamp = now]}
            /\ Written(p)

\* Faulty variant: the upsert finds its row by identity alone.
UpsertById(p) ==
    LET data == UpsertData(row[p].newDocumentState, userId[p])
    IN IF \E r \in store : r.id = row[p].newDocumentState.id
       THEN LET target == CHOOSE r \in store : r.id = row[p].newDocumentState.id
            IN /\ store' = (store \ {target}) \cup {PrismaRow(target, data, now)}
               /\ Written(p)
       ELSE /\ store' = store \cup {PrismaRow(data, data, now)}
            /\ Written(p)

\* Faulty variant: the upsert always creates.
UpsertCreate(p) ==
    LET data == UpsertData(row[p].newDocumentState, userId[p])
    IN /\ store' = store \cup {PrismaRow(data, data, now)}
       /\ Written(p)

\* collection.upsert({ where, update: data, create: data }); id is the primary key.
Upsert(p) ==
    LET data == UpsertData(row[p].newDocumentState, userId[p])
        target == findUnique(store, userId[p], row[p].newDocumentState.id)
    IN IF target # Null
       THEN /\ store' = (store \ {target}) \cup {PrismaRow(target, data, now)}
            /\ Written(p)
       ELSE IF \E r \in store : r.id = row[p].newDocumentState.id
       THEN Throw(p)
       ELSE /\ store' = store \cup {PrismaRow(data, data, now)}
            /\ Written(p)

PushWrite(p) ==
    /\ pc[p] = "write"
    /\ IF row[p].newDocumentState._deleted THEN SoftDelete(p) ELSE Upsert(p)
    /\ UNCHANGED <<now, pushes, raced, before, pullVars>>

\* conflicts.map(conflict => 'deleted' in conflict ? { ...rest, _deleted } : conflict)
ConflictOut(conflict) ==
    IF "deleted" \in DOMAIN conflict
    THEN [k \in (DOMAIN conflict \ {"deleted"}) \cup {"_deleted"} |->
            IF k = "_deleted" THEN conflict.deleted ELSE conflict[k]]
    ELSE conflict

\* Faulty variant: the request answers with an empty list whatever it recorded.
PushReturnEmpty(p) ==
    /\ pc[p] = "scan"
    /\ left[p] = 0
    /\ pc' = [pc EXCEPT ![p] = "done"]
    /\ result' = [result EXCEPT ![p] = <<>>]
    /\ UNCHANGED <<store, now, userId, left, row, itemInDb, conflicts, applied, pushes,
                   raced, before, pullVars>>

\* Faulty variant: a request that found a conflict ends as a failed request.
PushReturnFailsOnConflict(p) ==
    /\ pc[p] = "scan"
    /\ left[p] = 0
    /\ pc' = [pc EXCEPT ![p] = IF conflicts[p] = <<>> THEN "done" ELSE "failed"]
    /\ result' = [result EXCEPT ![p] =
                    IF conflicts[p] = <<>>
                    THEN <<>>
                    ELSE result[p]]
    /\ UNCHANGED <<store, now, userId, left, row, itemInDb, conflicts, applied, pushes,
                   raced, before, pullVars>>

\* return conflicts.map(...): the handler returns, the route answers c.json.
PushReturn(p) ==
    /\ pc[p] = "scan"
    /\ left[p] = 0
    /\ pc' = [pc EXCEPT ![p] = "done"]
    /\ result' = [result EXCEPT ![p] =
                    [i \in 1..Len(conflicts[p]) |-> ConflictOut(conflicts[p][i])]]
    /\ UNCHANGED <<store, now, userId, left, row, itemInDb, conflicts, applied, pushes,
                   raced, before, pullVars>>

\* ------------------------------------------------------------ registry
\* What each pair of routes hands to the two handlers: the key its validator
\* requires, the idField argument, the orderBy argument of the pull and the
\* unique constraint argument of the push.
Collections == {"folders", "items", "plannerdata", "semesters"}

Route(key, field, order, unique) ==
    [pullKey |-> key, pullIdField |-> field, orderBy |-> order,
     pushKey |-> key, pushIdField |-> field, uniqueConstraint |-> unique]

\* Faulty variant: the items are sorted by id while compared by uuid.
RegistryMixed ==
    [c \in Collections |->
        IF c = "items"
        THEN Route("uuid", "uuid", <<<<"serverTimestamp", "asc">>, <<"id", "asc">>>>, Null)
        ELSE Route("id", "id", <<<<"serverTimestamp", "asc">>, <<"id", "asc">>>>,
                   [name |-> "userId_id"])]

Registry ==
    [c \in Collections |->
        IF c = "items"
        THEN Route("uuid", "uuid", <<<<"serverTimestamp", "asc">>, <<"uuid", "asc">>>>, Null)
        ELSE Route("id", "id", <<<<"serverTimestamp", "asc">>, <<"id", "asc">>>>,
                   [name |-> "userId_id"])]

\* const id = queryParams[idField]; { [idField]: { gt: id } }
PullCompareField(c) == Registry[c].pullIdField

\* orderBy: the field after serverTimestamp.
PullTieBreakField(c) == Registry[c].orderBy[2][1]

\* const id = newDocumentState[idField]; where: { [idField]: id, userId }
PushLookupField(c) == Registry[c].pushIdField

\* [idField]: lastDoc[idField]
CheckpointField(c) == Registry[c].pullIdField

\* ------------------------------------------------- planner data columns
\* A value of includedSemesters on the wire: a text, or a list of texts.
Text(t) == [text |-> t]
List(l) == [list |-> l]
SemesterValues == {Text("s"), List(<<>>), List(<<"s">>)}

\* The documents /plannerdata/push lets through: id and _deleted are checked,
\* every other field passes as it is, includedSemesters among them or not.
PlannerDocs ==
    [id : Ids, title : Titles, _deleted : BOOLEAN] \cup
    [id : Ids, title : Titles, _deleted : BOOLEAN, includedSemesters : SemesterValues]

\* model PlannerData: includedSemesters String, required.  Prisma validates
\* the create and the update data of an upsert before it runs the query.
PlannerAccepts(data) ==
    /\ "includedSemesters" \in DOMAIN data
    /\ "text" \in DOMAIN data.includedSemesters

PrismaPlannerRow(base, data, clock) ==
    [k \in {"id", "userId", "title", "includedSemesters", "deleted", "serverTimestamp"} |->
        IF k = "serverTimestamp"
        THEN IF k \in DOMAIN data THEN NewDate(data[k]) ELSE clock
        ELSE IF k \in DOMAIN data THEN data[k] ELSE base[k]]

\* prisma.plannerData.upsert({ where, update: data, create: data })
PlannerUpsert(p) ==
    LET data == UpsertData(row[p].newDocumentState, userId[p])
        target == findUnique(store, userId[p], row[p].newDocumentState.id)
    IN IF ~PlannerAccepts(data)
       THEN Throw(p)
       ELSE IF target # Null
       THEN /\ store' = (store \ {target}) \cup {PrismaPlannerRow(target, data, now)}
            /\ Written(p)
       ELSE IF \E r \in store : r.id = row[p].newDocumentState.id
       THEN Throw(p)
       ELSE /\ store' = store \cup {PrismaPlannerRow(data, data, now)}
            /\ Written(p)

PlannerWrite(p) ==
    /\ pc[p] = "write"
    /\ IF row[p].newDocumentState._deleted THEN SoftDelete(p) ELSE PlannerUpsert(p)
    /\ UNCHANGED <<now, pushes, raced, before, pullVars>>

Init ==
    /\ store = {}
    /\ now = 1
    /\ pc = [p \in Procs |-> "idle"]
    /\ userId = [p \in Procs |-> NoUser]
    /\ left = [p \in Procs |-> 0]
    /\ row = [p \in Procs |-> Null]
    /\ itemInDb = [p \in Procs |-> Null]
    /\ conflicts = [p \in Procs |-> <<>>]
    /\ applied = [p \in Procs |-> 0]
    /\ result = [p \in Procs |-> <<>>]
    /\ pushes = 0
    /\ raced = FALSE
    /\ before = {}
    /\ batch = <<>>
    /\ puller = NoUser
    /\ checkpoint = Null
    /\ documents = <<>>
    /\ delivered = <<>>

\* new Date() advances.
Tick ==
    /\ now < MaxClock
    /\ now' = now + 1
    /\ UNCHANGED <<store, pushVars, pullVars>>

Users == Owners \cup {NoUser}

\* Push requests one after the other, and the clock.
Next ==
    \/ \E u \in Users, n \in 0..MaxRows : PushBegin(1, u, n) /\ UNCHANGED before
    \/ \E r \in Intents : PushScan(1, r)
    \/ PushWrite(1)
    \/ PushReturn(1)
    \/ Tick

Spec == Init /\ [][Next]_vars

\* Two push requests of one owner in flight at once, one intent each.
RaceNext ==
    \/ \E p \in Procs : PushBegin(p, "u1", 1) /\ UNCHANGED before
    \/ \E p \in Procs, r \in Intents : PushScan(p, r)
    \/ \E p \in Procs : PushWrite(p)
    \/ \E p \in Procs : PushReturn(p)
    \/ Tick

RaceSpec == Init /\ [][RaceNext]_vars

\* The pushes of one owner interleaved with the pulls of one of its clients.
SyncNext ==
    \/ PushBegin(1, "u1", 1) /\ UNCHANGED before
    \/ \E r \in [newDocumentState : WireDocs] : PushScan(1, r)
    \/ PushWrite(1)
    \/ PushReturn(1)
    \/ puller = NoUser /\ \E b \in PositiveBatchParams : PullFirst("u1", b)
    \/ PullNext
    \/ Tick

SyncSpec == Init /\ [][SyncNext]_vars

\* Push requests of several intents, observed: the table is recorded when a
\* request begins, and a client of u1 pulls from the start at any moment.
BatchNext ==
    \/ \E u \in Owners, n \in 1..MaxRows : PushBegin(1, u, n) /\ before' = store
    \/ \E r \in [newDocumentState : WireDocs] : PushScan(1, r)
    \/ PushWrite(1)
    \/ PushReturn(1)
    \/ PullFirst("u1", <<>>)
    \/ Tick

BatchSpec == Init /\ [][BatchNext]_vars

\* The planner data collection: pushes of one owner, one document each, and
\* the first pull of one of its clients.
CodecNext ==
    \/ PushBegin(1, "u1", 1) /\ UNCHANGED before
    \/ \E r \in [newDocumentState : PlannerDocs] : PushScan(1, r)
    \/ PlannerWrite(1)
    \/ PushReturn(1)
    \/ PullFirst("u1", <<>>)
    \/ Tick

CodecSpec == Init /\ [][CodecNext]_vars

\* Pushes of one intent whose new state may name an owner and a tombstone.
ForgeNext ==
    \/ \E u \in Owners : PushBegin(1, u, 1) /\ UNCHANGED before
    \/ \E r \in ForgedIntents : PushScan(1, r)
    \/ PushWrite(1)
    \/ PushReturn(1)
    \/ Tick

ForgeSpec == Init /\ [][ForgeNext]_vars

\* Push requests of one owner, observed: the table is recorded when a request
\* begins, and intents may supply an assumed state.
OrderNext ==
    \/ \E n \in 1..MaxRows : PushBegin(1, "u1", n) /\ before' = store
    \/ \E r \in Intents : PushScan(1, r)
    \/ PushWrite(1)
    \/ PushReturn(1)
    \/ Tick

OrderSpec == Init /\ [][OrderNext]_vars

\* A store that no request is writing: any table the pushes can leave behind,
\* which holds at most one row per identity (id is the primary key).
Tables ==
    {{[id |-> i, userId |-> f[i].userId, title |-> f[i].title,
       deleted |-> f[i].deleted, serverTimestamp |-> f[i].serverTimestamp] :
            i \in present} :
        present \in SUBSET Ids,
        f \in [Ids -> [userId : Owners, title : Titles, deleted : BOOLEAN,
                      serverTimestamp : Times]]}

QuietInit ==
    /\ store \in Tables
    /\ now = MaxClock
    /\ pc = [p \in Procs |-> "idle"]
    /\ userId = [p \in Procs |-> NoUser]
    /\ left = [p \in Procs |-> 0]
    /\ row = [p \in Procs |-> Null]
    /\ itemInDb = [p \in Procs |-> Null]
    /\ conflicts = [p \in Procs |-> <<>>]
    /\ applied = [p \in Procs |-> 0]
    /\ result = [p \in Procs |-> <<>>]
    /\ pushes = 0
    /\ raced = FALSE
    /\ before = {}
    /\ batch = <<>>
    /\ puller = NoUser
    /\ checkpoint = Null
    /\ documents = <<>>
    /\ delivered = <<>>

\* One client replicates: a first pull, then pulls with the checkpoint it holds.
QuietNext ==
    \/ puller = NoUser /\ \E u \in Owners, b \in BatchParams : PullFirst(u, b)
    \/ PullNext

PullSpec == QuietInit /\ [][QuietNext]_vars

\* The client keeps pulling until a pull changes nothing.
PullFairSpec == PullSpec /\ WF_vars(QuietNext)

\* One pull with any query parameters the validator lets through, over a
\* quiet table.
PullAny ==
    /\ puller = NoUser
    /\ \E u \in Owners, q \in Queries : UNCHANGED batch /\ Pull(u, q)

CursorSpec == QuietInit /\ [][PullAny]_vars

\* ------------------------------------------------------------ properties
\* The wire projection of a stored row: its identity, its payload and the
\* tombstone under the name _deleted.
StoredWire(s) == [id |-> s.id, title |-> s.title, _deleted |-> s.deleted]

HasRow(u, i) == \E s \in store : s.userId = u /\ s.id = i

RowOf(u, i) == CHOOSE s \in store : s.userId = u /\ s.id = i

\* The intent r of request p supplies an assumed state that differs from the
\* wire projection of the row stored for (owner, identity).
Mismatch(p, r) ==
    /\ "assumedMasterState" \in DOMAIN r
    /\ HasRow(userId[p], r.newDocumentState.id)
    /\ StoredWire(RowOf(userId[p], r.newDocumentState.id)) # r.assumedMasterState

IsPrefix(s, t) == Len(s) <= Len(t) /\ SubSeq(t, 1, Len(s)) = s

\* C1 (as stated): batch atomicity.  When a push has found one of its intents
\* conflicting, it has applied no intent of the batch.
C1_BatchAtomicity ==
    \A p \in Procs : conflicts[p] # <<>> => applied[p] = 0

\* C1 (amended): each intent is decided on its own.  An intent found
\* conflicting is not applied and its step leaves every stored row as it was;
\* an intent not found conflicting goes on to its write (unless it deletes a
\* row that is not there), also when another intent of the batch conflicted.
C1_PerIntent ==
    \A p \in Procs : (pc[p] = "scan" /\ left[p] > 0) =>
        \A r \in Intents :
            IF Mismatch(p, r)
            THEN ENABLED (/\ PushScan(p, r)
                          /\ store' = store
                          /\ applied'[p] = applied[p]
                          /\ pc'[p] = "scan")
            ELSE IF r.newDocumentState._deleted /\ ~HasRow(userId[p], r.newDocumentState.id)
            THEN ENABLED (/\ PushScan(p, r)
                          /\ store' = store
                          /\ applied'[p] = applied[p]
                          /\ pc'[p] = "scan")
            ELSE ENABLED (/\ PushScan(p, r)
                          /\ pc'[p] = "write"
                          /\ row'[p] = r
                          /\ conflicts'[p] = conflicts[p])

\* C1 witness: a push has returned a conflict and has applied another intent.
C1_Witness ==
    \E p \in Procs : pc[p] = "done" /\ result[p] # <<>> /\ applied[p] > 0

\* C2: conflict correctness.  An intent whose assumed state is supplied and
\* differs from the wire projection of the stored row adds that projection to
\* the conflicts and leaves the store as it was; no later step of the request
\* drops a recorded conflict, and the list the request returns is that record.
C2_ConflictCorrectness ==
    \A p \in Procs :
        /\ (pc[p] = "scan" /\ left[p] > 0) =>
              \A r \in Intents : Mismatch(p, r) =>
                  ENABLED (/\ PushScan(p, r)
                           /\ store' = store
                           /\ conflicts'[p] =
                                Append(conflicts[p],
                                       StoredWire(RowOf(userId[p], r.newDocumentState.id))))
        /\ ~ENABLED (/\ \/ \E r \in Intents : PushScan(p, r)
                        \/ PushWrite(p)
                        \/ PushReturn(p)
                     /\ pc'[p] # "failed"
                     /\ ~IsPrefix(conflicts[p], conflicts'[p]))
        /\ pc[p] = "done" => result[p] = conflicts[p]

\* C2 witness: a returned conflict is the wire projection of the row that is
\* still stored for the owner.
C2_Witness ==
    \E p \in Procs :
        /\ pc[p] = "done"
        /\ Len(result[p]) = 1
        /\ HasRow(userId[p], result[p][1].id)
        /\ StoredWire(RowOf(userId[p], result[p][1].id)) = result[p][1]
        /\ applied[p] = 0

\* C7: no hard delete.  A row stored for (owner, identity) is stored for that
\* (owner, identity) after every step, and the table never shrinks.
C7_NoHardDelete ==
    [][/\ \A s \in store : \E t \in store' : t.id = s.id /\ t.userId = s.userId
       /\ Cardinality(store') >= Cardinality(store)]_vars

\* C7 witness: a delete intent has been applied and its row is still stored,
\* tombstoned.
C7_Witness ==
    \E p \in Procs :
        /\ pc[p] = "done"
        /\ applied[p] > 0
        /\ \E s \in store : s.userId = userId[p] /\ s.deleted

\* C8 (as stated): the change-time of a row never moves back.
C8_MonotonicChangeTime ==
    [][\A s \in store : \A t \in store' :
        (t.id = s.id /\ t.userId = s.userId) =>
            t.serverTimestamp >= s.serverTimestamp]_vars

\* C9 (as stated): the change-time a write stores is the server's clock at the
\* time of the write, whatever the pushed state carries.
C9_ServerAssigned ==
    [][\A p \in Procs :
        (PushWrite(p) /\ pc'[p] # "failed") =>
            \E t \in store' :
                /\ t.id = row[p].newDocumentState.id
                /\ t.userId = userId[p]
                /\ t.serverTimestamp = now]_vars

\* (change-time, identity) of the query q is strictly before that of the row s;
\* a first sync is before every row.
StrictlyBefore(q, s) ==
    \/ q.serverTimestamp = EmptyString
    \/ NewDate(q.serverTimestamp) < s.serverTimestamp
    \/ NewDate(q.serverTimestamp) = s.serverTimestamp /\ q.id < s.id

\* The client has the stored version of every row of its owner: the last
\* document it received for the row's identity is the row's wire projection.
UpToDate ==
    \A s \in store : s.userId = puller =>
        \E i \in 1..Len(delivered) :
            /\ delivered[i] = StoredWire(s)
            /\ \A j \in (i+1)..Len(delivered) : delivered[j].id # s.id

\* C3 (as stated): pull is gap-free under interleaving with pushes.  No row
\* version is skipped: when a pull with the checkpoint of the previous pull
\* returns an empty batch, the client has received the stored version of
\* every row of its owner.
C3_GapFree ==
    [][(PullNext /\ documents' = <<>>) => UpToDate']_vars

\* C4 (as stated): completeness without duplication on a quiet store, for any
\* batch size.  The documents received since the first pull are wire
\* projections of rows of the owner, no identity is received twice, and once
\* a batch is empty every row of the owner, tombstoned or not, has been
\* received.
C4_AnyBatchSize ==
    /\ \A i \in 1..Len(delivered) :
          \E s \in store : s.userId = puller /\ StoredWire(s) = delivered[i]
    /\ \A i, j \in 1..Len(delivered) : i # j => delivered[i].id # delivered[j].id
    /\ (puller # NoUser /\ documents = <<>>) => UpToDate

\* C4 (amended): the same, for any positive batch size and for the default.
C4_PositiveBatchSize == batch \in PositiveBatchParams => C4_AnyBatchSize

\* C4 witness: the pulls have ended after two rows with the same change-time,
\* one of them tombstoned, were received, and the other owner has a row too.
C4_Witness ==
    /\ puller # NoUser /\ documents = <<>>
    /\ batch = <<1>>
    /\ Len(delivered) = 2
    /\ \E i \in 1..2 : delivered[i]._deleted
    /\ \A s, t \in store : s.serverTimestamp = t.serverTimestamp
    /\ Cardinality({s \in store : s.userId = puller}) = 2

\* C5: pull terminates.  On a quiet store the client reaches an empty batch,
\* and from then on its pulls stay empty and return the checkpoint it holds.
C5_Terminates ==
    /\ <>(puller # NoUser /\ documents = <<>>)
    /\ [][(puller # NoUser /\ documents = <<>>) =>
              (documents' = <<>> /\ checkpoint' = checkpoint)]_vars

\* C5 witness: after a batch with rows the client holds the checkpoint of the
\* last row it received, and the batch it was answered with is empty.
C5_Witness ==
    /\ puller # NoUser /\ documents = <<>>
    /\ delivered # <<>>
    /\ checkpoint # Null
    /\ checkpoint.id = delivered[Len(delivered)].id

\* The place of the row s among the rows of its owner that are after the
\* query q in (change-time, identity) order.
Rank(q, s) ==
    Cardinality({r \in store :
        /\ r.userId = s.userId
        /\ StrictlyBefore(q, r)
        /\ r = s \/ Before(r, s)})

C10_RaceReported ==
    (raced /\ \A p \in Procs : pc[p] = "done") =>
        /\ \E p \in Procs : result[p] # <<>>
        /\ Cardinality({p \in Procs : applied[p] > 0}) <= 1

\* r1 is before r2 in (change-time ascending, identity ascending) order.
Ascending(r1, r2) ==
    \/ r1.serverTimestamp < r2.serverTimestamp
    \/ r1.serverTimestamp = r2.serverTimestamp /\ r1.id < r2.id

\* The rows of owner u strictly after the checkpoint of the query q; all of
\* them when q has no checkpoint.
After(u, q) == {r \in store : r.userId = u /\ StrictlyBefore(q, r)}

\* The place of the row r in the set E, in ascending order.
Place(E, r) == Cardinality({w \in E : w = r \/ Ascending(w, r)})

\* The batch size a query asks for.
Asked(q) == IF "batchSize" \in DOMAIN q THEN q.batchSize ELSE 10

\* C13: pull ordering.  The rows of the documents of a batch are in strictly
\* ascending (change-time, identity) order, and a pull with the returned
\* checkpoint starts with the row that follows the last row of the batch,
\* also when the two have the same change-time, and does not return the
\* last row again.
C13_PullOrdering ==
    \A u \in Owners : \A q \in Queries :
        LET response == handlePullRequest(store, u, q)
            docs == response.documents
        IN /\ \A i \in 1..Len(docs) : HasRow(u, docs[i].id)
           /\ \A i \in 1..(Len(docs) - 1) :
                 Ascending(RowOf(u, docs[i].id), RowOf(u, docs[i+1].id))
           /\ docs # <<>> =>
                 LET last == RowOf(u, docs[Len(docs)].id)
                 IN \A b \in PositiveBatchParams :
                      LET next == handlePullRequest(store, u,
                                      WithBatch(response.checkpoint, b)).documents
                      IN /\ \A i \in 1..Len(next) : next[i].id # last.id
                         /\ \A t \in store :
                               (/\ t.userId = u
                                /\ Ascending(last, t)
                                /\ \A w \in store : w.userId = u =>
                                      ~(Ascending(last, w) /\ Ascending(w, t)))
                               => (next # <<>> /\ next[1] = StoredWire(t))

\* C13 witness: with a batch size of 1 the client has received two rows of
\* the same change-time in two batches, the smaller identity first.
C13_Witness ==
    /\ batch = <<1>>
    /\ Len(delivered) = 2 /\ Len(documents) = 1
    /\ delivered[1].id < delivered[2].id
    /\ HasRow(puller, delivered[1].id) /\ HasRow(puller, delivered[2].id)
    /\ RowOf(puller, delivered[1].id).serverTimestamp =
          RowOf(puller, delivered[2].id).serverTimestamp

\* C14: pull batch selection.  The batch has min(batchSize, n) documents,
\* batchSize being 10 when not given, and its i-th document is the wire
\* projection of the i-th of the n rows of the owner after the checkpoint.
C14_BatchSelection ==
    \A u \in Owners : \A q \in Queries :
        LET docs == handlePullRequest(store, u, q).documents
            E == After(u, q)
            n == Cardinality(E)
        IN /\ Len(docs) = IF Asked(q) < n THEN Asked(q) ELSE n
           /\ \A i \in 1..Len(docs) :
                 \E r \in E : Place(E, r) = i /\ StoredWire(r) = docs[i]

\* C14 witness: a first pull with a batch size of 1 has returned one of the
\* two rows of the owner, the one with the earlier change-time.
C14_Witness ==
    /\ batch = <<1>>
    /\ Len(delivered) = 1 /\ Len(documents) = 1
    /\ \E r, t \in store :
          /\ r.userId = puller /\ t.userId = puller
          /\ r.serverTimestamp < t.serverTimestamp
          /\ StoredWire(r) = documents[1]

\* C15: an empty pull keeps the checkpoint.  When no row of the owner is after
\* the checkpoint, the pull returns no document and the identity and
\* change-time it was given, or null when it was given no checkpoint.
C15_EmptyKeepsCheckpoint ==
    \A u \in Owners : \A q \in Queries : After(u, q) = {} =>
        LET response == handlePullRequest(store, u, q)
        IN /\ response.documents = <<>>
           /\ IF q.serverTimestamp = EmptyString
              THEN response.checkpoint = Null
              ELSE /\ DOMAIN response.checkpoint = {"id", "serverTimestamp"}
                   /\ response.checkpoint.id = q.id
                   /\ NewDate(response.checkpoint.serverTimestamp) =
                         NewDate(q.serverTimestamp)

\* C15 witness: the client received a row, pulled again and was answered with
\* no document and the checkpoint of that row, while the other owner holds a
\* row after that checkpoint.
C15_Witness ==
    /\ puller # NoUser /\ documents = <<>>
    /\ Len(delivered) = 1
    /\ checkpoint # Null
    /\ checkpoint.id = delivered[1].id
    /\ \E s \in store : s.userId # puller /\ StrictlyBefore(checkpoint, s)

\* C16: a non-empty pull advances the checkpoint to the last row.  The
\* checkpoint returned with documents is the identity and the change-time of
\* the row of the last document.
C16_CheckpointOfLast ==
    \A u \in Owners : \A q \in Queries :
        LET response == handlePullRequest(store, u, q)
            docs == response.documents
        IN docs # <<>> =>
              /\ HasRow(u, docs[Len(docs)].id)
              /\ response.checkpoint =
                    [id |-> docs[Len(docs)].id,
                     serverTimestamp |->
                        toISOString(RowOf(u, docs[Len(docs)].id).serverTimestamp)]

\* C16 witness: a batch of two rows of different change-times was returned
\* with the checkpoint of the second.
C16_Witness ==
    /\ Len(documents) = 2
    /\ checkpoint # Null
    /\ checkpoint.id = documents[2].id
    /\ HasRow(puller, documents[1].id) /\ HasRow(puller, documents[2].id)
    /\ RowOf(puller, documents[1].id).serverTimestamp <
          RowOf(puller, documents[2].id).serverTimestamp
    /\ NewDate(checkpoint.serverTimestamp) =
          RowOf(puller, documents[2].id).serverTimestamp

\* C17: pull is scoped to the owner.  Every document of a pull is the wire
\* projection of a row of the owner, and the response is the one the pull
\* gives on the table without the rows of the other owners.
C17_PullScoped ==
    \A u \in Owners : \A q \in Queries :
        LET response == handlePullRequest(store, u, q)
        IN /\ \A i \in 1..Len(response.documents) :
                 \E s \in store : s.userId = u /\ StoredWire(s) = response.documents[i]
           /\ response = handlePullRequest({r \in store : r.userId = u}, u, q)

\* C17 witness: the client has received the one row of its owner and its
\* pulls have ended, while the other owner holds a row that is earlier.
C17_Witness ==
    /\ puller # NoUser /\ documents = <<>>
    /\ Len(delivered) = 1
    /\ \E s, t \in store :
          /\ s.userId = puller /\ StoredWire(s) = delivered[1]
          /\ t.userId # puller /\ Ascending(t, s)

\* Request p has changed the table and its awaited write will change it again
\* or fail: some of the batch is applied and the rest is not.
MidBatch(p) ==
    /\ pc[p] = "write"
    /\ store # before
    /\ ~ENABLED (PushWrite(p) /\ store' = store /\ pc'[p] # "failed")

\* C11 (as stated): no partial visible state.  A pull of the owner never runs
\* on a table in which a push request of that owner has applied some of its
\* intents and not the others.
C11_NoPartialState ==
    [][PullFirst("u1", <<>>) => ~(userId[1] = "u1" /\ MidBatch(1))]_vars

\* C12 (as stated): rollback on storage error.  When a write of a push request
\* is rejected by the storage, the request fails and the table is what it was
\* when the request began.
C12_Rollback ==
    (pc[1] = "failed" /\ userId[1] # NoUser) => store = before

\* C18: push is scoped to the owner.  A step changes or removes a stored row
\* only if a request of the owner of that row is writing.
C18_PushScoped ==
    [][\A s \in store :
          s \in store' \/ \E p \in Procs : pc[p] = "write" /\ userId[p] = s.userId]_vars

\* C18 witness: a request of one owner named an identity that the other owner
\* holds and has ended, failed, with the other owner's row stored.
C18_Witness ==
    /\ pc[1] = "failed" /\ userId[1] # NoUser
    /\ \E s \in store : s.userId # userId[1]
    /\ \A s \in store : s.userId # userId[1]

\* C19 (as stated): identity is unique per owner, not globally.  A request
\* about to create identity i for its owner, who holds no row for i, creates
\* the row and goes on, whatever rows the other owners hold, and every row
\* stored stays.
C19_PerOwnerIdentity ==
    \A p \in Procs :
        (/\ pc[p] = "write"
         /\ ~row[p].newDocumentState._deleted
         /\ ~HasRow(userId[p], row[p].newDocumentState.id))
        => ENABLED (/\ PushWrite(p)
                    /\ pc'[p] # "failed"
                    /\ store \subseteq store'
                    /\ \E t \in store' :
                          t.userId = userId[p] /\ t.id = row[p].newDocumentState.id)

\* C20: at most one row per (owner, identity), and soft delete does not free
\* the identity.  No two stored rows have the same owner and identity, and a
\* write for the identity of a tombstoned row acts on that row: the table
\* keeps its size and has one row for the (owner, identity).
C20_OneRowPerIdentity ==
    /\ \A s, t \in store : (s.userId = t.userId /\ s.id = t.id) => s = t
    /\ \A p \in Procs :
          (pc[p] = "write" /\ itemInDb[p] # Null /\ itemInDb[p].deleted) =>
             ENABLED (/\ PushWrite(p)
                      /\ pc'[p] # "failed"
                      /\ Cardinality(store') = Cardinality(store)
                      /\ Cardinality({t \in store' :
                             /\ t.userId = userId[p]
                             /\ t.id = row[p].newDocumentState.id}) = 1)

\* C20 witness: a request has found the tombstoned row of the identity it is
\* about to write a live state for.
C20_Witness ==
    \E p \in Procs :
        /\ pc[p] = "write"
        /\ itemInDb[p] # Null /\ itemInDb[p].deleted
        /\ ~row[p].newDocumentState._deleted
        /\ itemInDb[p] \in store

\* ---------------------------------------------------------------- C21
\* C21: a request without an owner is rejected before it touches storage.  A
\* pull without an owner answers with the error whatever the table holds and
\* whatever the query, and no pull step is possible for it; a push without an
\* owner fails as it begins, with the table as it was, and then never looks a
\* row up, writes or returns a conflict list.
C21_Unauthenticated ==
    /\ \A q \in Queries :
          handlePullRequest(store, NoUser, q) = [error |-> "User ID is required"]
    /\ \A q \in Queries : ~ENABLED (UNCHANGED batch /\ Pull(NoUser, q))
    /\ \A n \in 0..MaxRows :
          ~ENABLED (/\ PushBegin(1, NoUser, n)
                    /\ UNCHANGED before
                    /\ ~(store' = store /\ pc'[1] = "failed" /\ left'[1] = 0))
    /\ \A p \in Procs :
          (userId[p] = NoUser /\ pc[p] # "idle") =>
              /\ pc[p] = "failed"
              /\ applied[p] = 0
              /\ conflicts[p] = <<>>
              /\ result[p] = <<>>
              /\ ~ENABLED PushWrite(p)
              /\ ~ENABLED PushReturn(p)
              /\ \A r \in Intents : ~ENABLED PushScan(p, r)

\* A push without an owner has failed over a table that holds rows.
C21_Witness ==
    /\ pc[1] = "failed"
    /\ userId[1] = NoUser
    /\ store # {}

\* ---------------------------------------------------------------- C22
\* C22: conflicts are data, not errors.  The step that finds an intent
\* conflicting keeps the request running and never fails it; a request whose
\* loop has ended with conflicts recorded returns, its only outcome is the
\* successful one, and what it returns is the list of the recorded rows.  No
\* check and no return ever fails a request: only a missing owner or a write
\* that storage rejects does.
C22_ConflictsAreData ==
    \A p \in Procs :
        /\ (pc[p] = "scan" /\ left[p] > 0) =>
              \A r \in Intents : Mismatch(p, r) =>
                  /\ ENABLED PushScan(p, r)
                  /\ ~ENABLED (PushScan(p, r) /\ pc'[p] # "scan")
        /\ (pc[p] = "scan" /\ left[p] = 0 /\ conflicts[p] # <<>>) =>
              /\ ENABLED (/\ PushReturn(p)
                          /\ pc'[p] = "done"
                          /\ result'[p] = conflicts[p])
              /\ ~ENABLED (PushReturn(p) /\ pc'[p] # "done")
        /\ ~ENABLED (/\ \/ \E r \in Intents : PushScan(p, r)
                        \/ PushReturn(p)
                     /\ pc'[p] = "failed")

\* A push whose two intents both conflicted has returned as a successful
\* request with two conflict documents.
C22_Witness ==
    /\ pc[1] = "done"
    /\ Len(result[1]) = 2
    /\ applied[1] = 0

\* ---------------------------------------------------------------- C23
\* The intent r of request p asks for a row to be deleted that is not stored.
DeletesAbsent(p, r) ==
    /\ r.newDocumentState._deleted
    /\ ~HasRow(userId[p], r.newDocumentState.id)

\* The store holds what the intent r of owner u asked for.
Holds(st, u, r) ==
    \E s \in st :
        /\ s.userId = u
        /\ s.id = r.newDocumentState.id
        /\ IF r.newDocumentState._deleted
           THEN s.deleted
           ELSE ~s.deleted /\ s.title = r.newDocumentState.title

\* A returned list is empty exactly when no intent was found conflicting.
EmptyIffNoConflict ==
    \A p \in Procs : pc[p] = "done" => (result[p] = <<>> <=> conflicts[p] = <<>>)

\* A write that resolves has put into the store what its intent asked for and
\* counts as applied.
WriteApplies ==
    \A p \in Procs : pc[p] = "write" =>
        ~ENABLED (/\ PushWrite(p)
                  /\ pc'[p] # "failed"
                  /\ ~(Holds(store', userId[p], row[p]) /\ applied'[p] = applied[p] + 1))

\* C23 (as stated): an empty conflict list means the whole batch applied.  A
\* push returns an empty list exactly when no intent was found conflicting,
\* and every intent not found conflicting is written to the store.
C23_EmptyMeansAllApplied ==
    /\ EmptyIffNoConflict
    /\ WriteApplies
    /\ \A p \in Procs : (pc[p] = "scan" /\ left[p] > 0) =>
          \A r \in Intents : ~Mismatch(p, r) =>
              ENABLED (PushScan(p, r) /\ pc'[p] = "write" /\ row'[p] = r)

\* C23 (amended): a push returns an empty list exactly when no intent was
\* found conflicting, and every intent not found conflicting is written to the
\* store, except the delete of a row that is not stored: that intent is passed
\* over, nothing is written for it, and it is not reported.
C23_EmptyMeansNoConflict ==
    /\ EmptyIffNoConflict
    /\ WriteApplies
    /\ \A p \in Procs : (pc[p] = "scan" /\ left[p] > 0) =>
          \A r \in Intents : ~Mismatch(p, r) =>
              IF DeletesAbsent(p, r)
              THEN /\ ENABLED (/\ PushScan(p, r)
                               /\ store' = store
                               /\ conflicts'[p] = conflicts[p]
                               /\ applied'[p] = applied[p]
                               /\ left'[p] = left[p] - 1)
                   /\ ~ENABLED (PushScan(p, r) /\ pc'[p] = "write")
              ELSE ENABLED (PushScan(p, r) /\ pc'[p] = "write" /\ row'[p] = r)

\* A push of two intents has returned an empty list with both written: the
\* owner holds a live row and a tombstoned one.
C23_Witness ==
    /\ pc[1] = "done"
    /\ result[1] = <<>>
    /\ applied[1] = 2
    /\ \E s \in store : s.userId = userId[1] /\ s.deleted
    /\ \E s \in store : s.userId = userId[1] /\ ~s.deleted

\* ---------------------------------------------------------------- C24
\* The shape of a document on the wire.
WireShaped(d) ==
    /\ "id" \in DOMAIN d
    /\ d.id \in Ids
    /\ "_deleted" \in DOMAIN d
    /\ d._deleted \in BOOLEAN
    /\ DOMAIN d \cap {"userId", "serverTimestamp", "deleted"} = {}

\* C24: wire document shape.  Every document a pull returns, for any owner
\* and query over the table as it stands, and every conflict document a push
\* records or returns, carries the identity and the boolean _deleted and
\* carries neither userId nor serverTimestamp nor deleted; the change-time of
\* a pull is in its checkpoint only.
C24_WireShape ==
    /\ \A u \in Owners, q \in Queries :
          LET response == handlePullRequest(store, u, q)
          IN /\ \A i \in 1..Len(response.documents) : WireShaped(response.documents[i])
             /\ response.documents # <<>> =>
                   "serverTimestamp" \in DOMAIN response.checkpoint
    /\ \A p \in Procs :
          /\ \A i \in 1..Len(conflicts[p]) : WireShaped(conflicts[p][i])
          /\ \A i \in 1..Len(result[p]) : WireShaped(result[p][i])

\* A push has returned the conflict document of a tombstoned row, and a pull
\* of its owner would return documents.
C24_Witness ==
    /\ pc[1] = "done"
    /\ Len(result[1]) = 1
    /\ result[1][1]._deleted
    /\ handlePullRequest(store, userId[1], FirstSync).documents # <<>>

\* ---------------------------------------------------------------- C25
\* C25: codec round trip.  Every non-deleted planner document that carries
\* includedSemesters, as a list or as a text, is accepted when pushed, and the
\* pull that follows returns a document equal to it.
C25_RoundTrip ==
    \A p \in Procs :
        (/\ pc[p] = "write"
         /\ ~row[p].newDocumentState._deleted
         /\ "includedSemesters" \in DOMAIN row[p].newDocumentState) =>
            ENABLED (/\ PlannerWrite(p)
                     /\ pc'[p] # "failed"
                     /\ LET response == handlePullRequest(store', userId[p], FirstSync)
                        IN \E i \in 1..Len(response.documents) :
                              response.documents[i] = row[p].newDocumentState)

\* A document whose includedSemesters is a list is about to be written.
C25_Witness ==
    /\ pc[1] = "write"
    /\ ~row[1].newDocumentState._deleted
    /\ "includedSemesters" \in DOMAIN row[1].newDocumentState
    /\ "list" \in DOMAIN row[1].newDocumentState.includedSemesters

\* ---------------------------------------------------------------- C26
\* C26: pull is read-only.  Every pull of the replicating client, the first
\* one or one with a checkpoint, with any batch size or none, returning
\* documents or not, leaves the table, every row of every owner, as it was,
\* and leaves the clock and every push request alone.
C26_PullReadOnly ==
    [][/\ store' = store
       /\ now' = now
       /\ pushVars' = pushVars]_vars

\* A pull has delivered a tombstoned row of its owner while the other owner
\* holds rows too, and a later pull has returned nothing.
C26_Witness ==
    /\ puller = "u1"
    /\ documents = <<>>
    /\ \E i \in 1..Len(delivered) : delivered[i]._deleted
    /\ \E s \in store : s.userId = "u1" /\ s.deleted
    /\ \E s \in store : s.userId = "u2"

\* ---------------------------------------------------------------- C27
\* C27: applying a non-delete intent.  A write of a new state whose _deleted
\* is false, when storage accepts it, leaves exactly one row for (caller,
\* identity): its title is that of the new state, its owner is the caller and
\* its tombstone is false whatever userId and deleted the new state carries;
\* the row is added when the caller held none and replaces the row the caller
\* held, and every other row stays.  Storage accepts the write unless another
\* owner holds the identity.
C27_ApplyUpsert ==
    \A p \in Procs :
        (pc[p] = "write" /\ ~row[p].newDocumentState._deleted) =>
            LET d == row[p].newDocumentState
                u == userId[p]
                others == {s \in store : ~(s.userId = u /\ s.id = d.id)}
            IN /\ ~ENABLED (/\ PushWrite(p)
                            /\ pc'[p] # "failed"
                            /\ ~\E t \in store' :
                                  /\ t.userId = u
                                  /\ t.id = d.id
                                  /\ t.title = d.title
                                  /\ ~t.deleted
                                  /\ store' = others \cup {t}
                                  /\ t \notin others)
               /\ (\A s \in others : s.id # d.id) =>
                     ENABLED (PushWrite(p) /\ pc'[p] # "failed"
                              /\ applied'[p] = applied[p] + 1)

\* C27 witness: a request is about to overwrite the row its owner holds with a
\* new state that names the other owner and a storage tombstone.
C27_Witness ==
    /\ pc[1] = "write"
    /\ ~row[1].newDocumentState._deleted
    /\ "userId" \in DOMAIN row[1].newDocumentState
    /\ row[1].newDocumentState.userId # userId[1]
    /\ row[1].newDocumentState.deleted
    /\ itemInDb[1] # Null
    /\ itemInDb[1].title # row[1].newDocumentState.title

\* ---------------------------------------------------------------- C28
\* C28: applying a delete intent on an existing row.  A write of a new state
\* whose _deleted is true finds the row of (caller, identity), is accepted,
\* and leaves that row with tombstone true and the change-time of the clock,
\* its identity, title and owner as they were stored, whatever title the new
\* state carries; every other row stays.
C28_ApplyDelete ==
    \A p \in Procs :
        (pc[p] = "write" /\ row[p].newDocumentState._deleted) =>
            /\ HasRow(userId[p], row[p].newDocumentState.id)
            /\ LET target == RowOf(userId[p], row[p].newDocumentState.id)
               IN /\ ENABLED (/\ PushWrite(p)
                              /\ pc'[p] # "failed"
                              /\ applied'[p] = applied[p] + 1)
                  /\ ~ENABLED (/\ PushWrite(p)
                               /\ ~\E t \in store' :
                                     /\ t.deleted
                                     /\ t.serverTimestamp = now
                                     /\ t.id = target.id
                                     /\ t.title = target.title
                                     /\ t.userId = target.userId
                                     /\ store' = (store \ {target}) \cup {t})

\* C28 witness: a request is about to delete a live row stored at an earlier
\* time, with a new state whose title is not the stored one.
C28_Witness ==
    /\ pc[1] = "write"
    /\ row[1].newDocumentState._deleted
    /\ itemInDb[1] # Null
    /\ ~itemInDb[1].deleted
    /\ itemInDb[1].title # row[1].newDocumentState.title
    /\ itemInDb[1].serverTimestamp < now

\* ---------------------------------------------------------------- C29
\* The identity field of a collection: uuid for items, id for the others.
IdentityOf(c) == IF c = "items" THEN "uuid" ELSE "id"

\* C29: registry consistency.  For each of the four collections the field of
\* the checkpoint comparison of pull, the tie-break of its sort order, the
\* field of its checkpoint and the key of the push lookup are the identity
\* field of the collection, the validators of both routes require that field,
\* and the sort order is (serverTimestamp ascending, identity ascending).  The
\* checkpoints and documents of the replicating client of folders carry it.
C29_RegistryConsistent ==
    /\ \A c \in Collections :
          /\ PullCompareField(c) = IdentityOf(c)
          /\ PullTieBreakField(c) = IdentityOf(c)
          /\ CheckpointField(c) = IdentityOf(c)
          /\ PushLookupField(c) = IdentityOf(c)
          /\ Registry[c].pullKey = IdentityOf(c)
          /\ Registry[c].pushKey = IdentityOf(c)
          /\ Registry[c].orderBy =
                <<<<"serverTimestamp", "asc">>, <<IdentityOf(c), "asc">>>>
    /\ checkpoint # Null => CheckpointField("folders") \in DOMAIN checkpoint
    /\ \A i \in 1..Len(documents) : PullCompareField("folders") \in DOMAIN documents[i]

\* C29 witness: with one document per pull, the client has received two rows
\* of one change-time in the order of their identities: the comparison and
\* the sort both went by the identity.
C29_Witness ==
    /\ batch = <<1>>
    /\ Len(delivered) = 2
    /\ delivered[1].id < delivered[2].id
    /\ checkpoint # Null
    /\ checkpoint.id = delivered[2].id
    /\ \E s, t \in store :
          /\ s.userId = puller /\ t.userId = puller
          /\ s.id = delivered[1].id /\ t.id = delivered[2].id
          /\ s.serverTimestamp = t.serverTimestamp

\* ---------------------------------------------------------------- C30
\* C30: stale state after a remote deletion is a conflict.  While the row of
\* (owner, identity) is stored tombstoned, an intent of the owner for that
\* identity whose assumed state has _deleted false, whatever its new state,
\* is recorded as a conflict: the recorded document is the stored row with
\* _deleted true, the intent never reaches a write, and the step leaves the
\* row, tombstoned, and the rest of the table as they were.
C30_StaleAfterDelete ==
    \A p \in Procs : (pc[p] = "scan" /\ left[p] > 0) =>
        \A r \in Intents :
            (/\ "assumedMasterState" \in DOMAIN r
             /\ ~r.assumedMasterState._deleted
             /\ HasRow(userId[p], r.newDocumentState.id)
             /\ RowOf(userId[p], r.newDocumentState.id).deleted) =>
                LET s == RowOf(userId[p], r.newDocumentState.id)
                IN /\ ENABLED (/\ PushScan(p, r)
                               /\ pc'[p] = "scan"
                               /\ store' = store
                               /\ applied'[p] = applied[p]
                               /\ Len(conflicts'[p]) = Len(conflicts[p]) + 1
                               /\ conflicts'[p][Len(conflicts'[p])] =
                                     [id |-> s.id, title |-> s.title, _deleted |-> TRUE])
                   /\ ~ENABLED (PushScan(p, r) /\ pc'[p] = "write")

\* C30 witness: after a delete by an earlier push, a push of the same owner
\* has returned the tombstoned row as its one conflict and has written
\* nothing; the row is stored tombstoned.
C30_Witness ==
    /\ pc[1] = "done"
    /\ pushes >= 2
    /\ applied[1] = 0
    /\ Len(result[1]) = 1
    /\ result[1][1]._deleted
    /\ \E s \in store :
          /\ s.userId = userId[1]
          /\ s.id = result[1][1].id
          /\ s.title = result[1][1].title
          /\ s.deleted

\* ---------------------------------------------------------------- C31
\* C31: an intent without an assumed state never conflicts.  When a row is
\* stored for (owner, identity) and the intent supplies no assumed state, the
\* check records nothing and hands the intent to its write, whatever the
\* stored row holds; the write is accepted and leaves what the intent asked
\* for in place of the stored row.
C31_NoAssumedNoConflict ==
    \A p \in Procs :
        /\ (pc[p] = "scan" /\ left[p] > 0) =>
              \A r \in Intents :
                  (/\ "assumedMasterState" \notin DOMAIN r
                   /\ HasRow(userId[p], r.newDocumentState.id)) =>
                      /\ ENABLED (/\ PushScan(p, r)
                                  /\ pc'[p] = "write"
                                  /\ row'[p] = r
                                  /\ conflicts'[p] = conflicts[p]
                                  /\ store' = store)
                      /\ ~ENABLED (PushScan(p, r) /\ conflicts'[p] # conflicts[p])
        /\ (/\ pc[p] = "write"
            /\ "assumedMasterState" \notin DOMAIN row[p]
            /\ itemInDb[p] # Null) =>
              /\ ENABLED (/\ PushWrite(p)
                          /\ pc'[p] # "failed"
                          /\ applied'[p] = applied[p] + 1)
              /\ ~ENABLED (/\ PushWrite(p)
                           /\ ~(/\ Holds(store', userId[p], row[p])
                                /\ Cardinality(store') = Cardinality(store)
                                /\ conflicts'[p] = conflicts[p]))

\* C31 witness: an intent without an assumed state is about to be written
\* over a stored row of another title.
C31_Witness ==
    /\ pc[1] = "write"
    /\ "assumedMasterState" \notin DOMAIN row[1]
    /\ ~row[1].newDocumentState._deleted
    /\ itemInDb[1] # Null
    /\ itemInDb[1].title # row[1].newDocumentState.title
    /\ itemInDb[1] \in store

\* ---------------------------------------------------------------- C32
\* C32: an intent on an absent row never conflicts.  When no row is stored for
\* (owner, identity), the check records nothing for the intent, with or
\* without an assumed state, and a non-delete intent goes to its write, which
\* creates the row.
C32_AbsentNeverConflicts ==
    \A p \in Procs :
        /\ (pc[p] = "scan" /\ left[p] > 0) =>
              \A r \in Intents : ~HasRow(userId[p], r.newDocumentState.id) =>
                  /\ ENABLED (PushScan(p, r) /\ conflicts'[p] = conflicts[p])
                  /\ ~ENABLED (PushScan(p, r) /\ conflicts'[p] # conflicts[p])
                  /\ ~r.newDocumentState._deleted =>
                        ENABLED (PushScan(p, r) /\ pc'[p] = "write" /\ row'[p] = r)
        /\ (/\ pc[p] = "write"
            /\ ~row[p].newDocumentState._deleted
            /\ itemInDb[p] = Null) =>
              ENABLED (/\ PushWrite(p)
                       /\ pc'[p] # "failed"
                       /\ Holds(store', userId[p], row[p])
                       /\ Cardinality(store') = Cardinality(store) + 1)

\* The part of C32 that the check alone decides: nothing is recorded for an
\* intent on an absent row, and a non-delete intent goes to its write.
C32_CheckPart ==
    \A p \in Procs :
        (pc[p] = "scan" /\ left[p] > 0) =>
            \A r \in Intents : ~HasRow(userId[p], r.newDocumentState.id) =>
                /\ ~ENABLED (PushScan(p, r) /\ conflicts'[p] # conflicts[p])
                /\ ~r.newDocumentState._deleted =>
                      ENABLED (PushScan(p, r) /\ pc'[p] = "write" /\ row'[p] = r)

\* C32 witness: an intent that supplies an assumed state for an identity its
\* owner does not hold is about to create the row, and the other owner holds
\* that identity.
C32_Witness ==
    /\ pc[1] = "write"
    /\ ~row[1].newDocumentState._deleted
    /\ "assumedMasterState" \in DOMAIN row[1]
    /\ itemInDb[1] = Null
    /\ \E s \in store : s.id = row[1].newDocumentState.id /\ s.userId # userId[1]

\* ---------------------------------------------------------------- C33
\* C33: a delete intent for an identity with no stored row is a no-op.  Its
\* iteration ends at the check: no write is issued, the table is as it was
\* (no tombstone is recorded, no row changes), the conflict list is as it
\* was, and the request goes on with its next intent.
C33_DeleteAbsentNoOp ==
    \A p \in Procs : (pc[p] = "scan" /\ left[p] > 0) =>
        \A r \in Intents :
            (/\ r.newDocumentState._deleted
             /\ ~HasRow(userId[p], r.newDocumentState.id)) =>
                /\ ENABLED (/\ PushScan(p, r)
                            /\ left'[p] = left[p] - 1)
                /\ ~ENABLED (/\ PushScan(p, r)
                             /\ ~(/\ store' = store
                                  /\ conflicts'[p] = conflicts[p]
                                  /\ applied'[p] = applied[p]
                                  /\ pc'[p] = "scan"
                                  /\ row'[p] = Null))

\* C33 witness: a request of at least one intent has returned with nothing
\* written and nothing reported: each of its intents deleted a row that its
\* owner did not hold, and the table, which holds rows, is as it was.
C33_Witness ==
    /\ pc[1] = "done"
    /\ applied[1] = 0
    /\ result[1] = <<>>
    /\ store = before
    /\ store # {}

\* ---------------------------------------------------------------- C34
\* The row that was stored for (u, i) when the observed request began.
HadRow(u, i) == \E b \in before : b.userId = u /\ b.id = i

RowBefore(u, i) == CHOOSE b \in before : b.userId = u /\ b.id = i

\* The intent r of request p assumes the state its row had when the request
\* began, and an earlier intent of the request has written that row since.
AssumesPreBatch(p, r) ==
    /\ "assumedMasterState" \in DOMAIN r
    /\ HadRow(userId[p], r.newDocumentState.id)
    /\ r.assumedMasterState = StoredWire(RowBefore(userId[p], r.newDocumentState.id))
    /\ RowOf(userId[p], r.newDocumentState.id) #
           RowBefore(userId[p], r.newDocumentState.id)

\* The check of r is made against the row as it stands: the document recorded
\* is that of the row now stored.
ReportsCurrent(p, r) ==
    ENABLED (/\ PushScan(p, r)
             /\ pc'[p] = "scan"
             /\ store' = store
             /\ conflicts'[p] =
                   Append(conflicts[p], StoredWire(RowOf(userId[p], r.newDocumentState.id))))

\* C34 (as stated): the intents of a batch see each other's effects.  An
\* intent whose assumed state is the state of its row before the batch is
\* reported as a conflict once an earlier intent of the batch has been applied
\* to that row.
C34_SecondConflicts ==
    \A p \in Procs : (pc[p] = "scan" /\ left[p] > 0 /\ applied[p] > 0) =>
        \A r \in Intents : AssumesPreBatch(p, r) => ReportsCurrent(p, r)

\* C34 (amended): the check of each intent is made against the row as the
\* earlier intents of the batch left it.  An intent whose assumed state is the
\* state of its row before the batch is reported as a conflict, with the row
\* as it stands, when an earlier intent left the row with another payload or
\* tombstone; when the earlier intent rewrote the row with the payload and
\* tombstone it had, the assumed state still matches and the intent goes on
\* to its write.
C34_SeesEarlierIntents ==
    \A p \in Procs : (pc[p] = "scan" /\ left[p] > 0 /\ applied[p] > 0) =>
        \A r \in Intents : AssumesPreBatch(p, r) =>
            IF StoredWire(RowOf(userId[p], r.newDocumentState.id)) # r.assumedMasterState
            THEN ReportsCurrent(p, r)
            ELSE /\ ENABLED (/\ PushScan(p, r)
                             /\ pc'[p] = "write"
                             /\ conflicts'[p] = conflicts[p])
                 /\ ~ENABLED (PushScan(p, r) /\ conflicts'[p] # conflicts[p])

\* C34 witness: a request of two intents has applied the first and has
\* returned the second as a conflict: the document returned is the row as the
\* first left it, not as it was when the request began.
C34_Witness ==
    /\ pc[1] = "done"
    /\ applied[1] = 1
    /\ Len(result[1]) = 1
    /\ HadRow(userId[1], result[1][1].id)
    /\ StoredWire(RowBefore(userId[1], result[1][1].id)) # result[1][1]
    /\ StoredWire(RowOf(userId[1], result[1][1].id)) = result[1][1]

\* ---------------------------------------------------------------- C35
\* Checkpoints in (change-time, identity) order.
CheckpointLess(c, d) ==
    \/ NewDate(c.serverTimestamp) < NewDate(d.serverTimestamp)
    \/ /\ NewDate(c.serverTimestamp) = NewDate(d.serverTimestamp)
       /\ c.id < d.id

CheckpointEqual(c, d) ==
    /\ NewDate(c.serverTimestamp) = NewDate(d.serverTimestamp)
    /\ c.id = d.id

\* C35: checkpoints never move backwards.  For every owner, every table and
\* every pull called with a checkpoint, the checkpoint returned is that
\* checkpoint when no document is returned and is strictly greater in
\* (change-time, identity) order when documents are returned; and along the
\* pulls of a client no checkpoint is less than the one before it.
C35_CheckpointMonotonic ==
    /\ [](\A u \in Owners : \A q \in Queries : q.serverTimestamp # EmptyString =>
            LET response == handlePullRequest(store, u, q)
            IN /\ response.checkpoint # Null
               /\ IF response.documents = <<>>
                  THEN CheckpointEqual(q, response.checkpoint)
                  ELSE CheckpointLess(q, response.checkpoint))
    /\ [][(checkpoint # Null) =>
             /\ checkpoint' # Null
             /\ IF documents' = <<>>
                THEN CheckpointEqual(checkpoint, checkpoint')
                ELSE CheckpointLess(checkpoint, checkpoint')]_vars

\* C35 witness: pulling one document at a time, the client holds the
\* checkpoint of its second document, which is of a later change-time than
\* its first.
C35_Witness ==
    /\ batch = <<1>>
    /\ Len(delivered) = 2
    /\ documents # <<>>
    /\ checkpoint # Null
    /\ checkpoint.id = delivered[2].id
    /\ \E s \in store :
          /\ s.userId = puller
          /\ s.id = delivered[1].id
          /\ s.serverTimestamp < NewDate(checkpoint.serverTimestamp)

\* ---------------------------------------------------------------- C36
\* A write of request p that revives the tombstoned row it found: afterwards
\* the row of (owner, identity) is live, its change-time is the clock, and a
\* pull of the owner from the start delivers it as not deleted.
Revived(p, st) ==
    /\ \E t \in st :
          /\ t.userId = userId[p]
          /\ t.id = row[p].newDocumentState.id
          /\ ~t.deleted
          /\ t.title = row[p].newDocumentState.title
          /\ t.serverTimestamp = now
    /\ LET response == handlePullRequest(st, userId[p], FirstSync)
       IN \E i \in 1..Len(response.documents) :
             /\ response.documents[i].id = row[p].newDocumentState.id
             /\ ~response.documents[i]._deleted

\* Request p is about to write a live state over the tombstoned row it found.
Reviving(p) ==
    /\ pc[p] = "write"
    /\ ~row[p].newDocumentState._deleted
    /\ itemInDb[p] # Null
    /\ itemInDb[p].deleted

\* C36: a non-delete push revives a tombstoned row.  A non-delete intent that
\* passed the check against a tombstoned row (no assumed state, or one equal
\* to the tombstoned row) is accepted, and its write sets the tombstone back
\* to false and the change-time to the clock, so that pulls deliver the row
\* as not deleted.
C36_Revives ==
    \A p \in Procs : Reviving(p) =>
        /\ ENABLED (PushWrite(p) /\ pc'[p] # "failed")
        /\ ~ENABLED (PushWrite(p) /\ ~Revived(p, store'))

\* The same for new states that carry no serverTimestamp of their own.
C36_RevivesServerTimed ==
    \A p \in Procs :
        (Reviving(p) /\ "serverTimestamp" \notin DOMAIN row[p].newDocumentState) =>
            /\ ENABLED (PushWrite(p) /\ pc'[p] # "failed")
            /\ ~ENABLED (PushWrite(p) /\ ~Revived(p, store'))

\* C36 witness: a request is about to write a live state that carries a
\* serverTimestamp over the tombstoned row it found, stored at a later time.
C36_Witness ==
    /\ Reviving(1)
    /\ "serverTimestamp" \in DOMAIN row[1].newDocumentState
    /\ NewDate(row[1].newDocumentState.serverTimestamp) < itemInDb[1].serverTimestamp
    /\ itemInDb[1] \in store

\* ---------------------------------------------------------------- C37
\* The rows of owner u a pull with the cursor (t, i) selects, with no limit.
AfterCursor(u, t, i) ==
    {r \in store :
        /\ r.userId = u
        /\ \/ r.serverTimestamp > t
           \/ r.serverTimestamp = t /\ r.id > i}

\* The documents are the wire forms of the first n rows of E, in order.
FirstOf(docs, E, n) ==
    /\ Len(docs) = Cardinality({r \in E : Place(E, r) <= n})
    /\ \A r \in E : Place(E, r) <= n => docs[Place(E, r)] = StoredWire(r)

\* C37: presence of a checkpoint is decided by the change-time alone.  A pull
\* whose serverTimestamp is empty is a first sync whatever identity it
\* supplies: it returns the first rows of the owner from the start of the
\* order, the same answer for every identity, and null as checkpoint when it
\* returns nothing.  A pull with a serverTimestamp returns the first rows
\* that are after the cursor made of that change-time and the identity.
C37_CursorByChangeTime ==
    \A u \in Owners : \A q \in Queries :
        LET response == handlePullRequest(store, u, q)
        IN IF q.serverTimestamp = EmptyString
           THEN /\ FirstOf(response.documents, {r \in store : r.userId = u}, Asked(q))
                /\ \A i \in Ids \cup {EmptyId} :
                      handlePullRequest(store, u, [q EXCEPT !.id = i]) = response
                /\ response.documents = <<>> => response.checkpoint = Null
           ELSE /\ FirstOf(response.documents,
                           AfterCursor(u, NewDate(q.serverTimestamp), q.id), Asked(q))
                /\ response.checkpoint # Null

\* C37 witness: the answer the client holds is that of a pull without a
\* serverTimestamp that supplied an identity, and it starts with a row whose
\* identity is not after the supplied one; the same table answers a pull with
\* a cursor of that identity differently.
C37_Witness ==
    /\ puller # NoUser
    /\ documents # <<>>
    /\ \E q \in Queries :
          /\ q.serverTimestamp = EmptyString
          /\ q.id # EmptyId
          /\ documents[1].id <= q.id
          /\ handlePullRequest(store, puller, q) =
                [checkpoint |-> checkpoint, documents |-> documents]
          /\ \E t \in Times :
                handlePullRequest(store, puller,
                    [q EXCEPT !.serverTimestamp = toISOString(t)]).documents # documents

TypeOK ==
    /\ store \subseteq Rows
    /\ now \in ServerTimes
====
